---- MODULE Spec2Model ----
(***************************************************************************)
(* Design studio (locallibrary/studio): the stored users, categories and   *)
(* applications, and the request handlers of views.py with the form        *)
(* validation of forms.py.  One action per view; a request's inputs are    *)
(* the logged-in identity, the primary key in the URL, the HTTP method and *)
(* the POST data.                                                          *)
(*                                                                         *)
(* Text that the code inspects character by character (user names, names,  *)
(* admin comments, category names and slugs) is a tuple of Unicode code    *)
(* points; text the code only stores is a TLA+ string.                     *)
(***************************************************************************)
EXTENDS Integers, Sequences, FiniteSets, TLC

VARIABLES
    users,          \* stored User rows (a set of records, keyed by username)
    categories,     \* stored Category rows: pk -> [name, slug]
    apps,           \* stored Application rows: pk -> record
    nextAppPk,      \* the next primary key of Application
    clock,          \* the time auto_now_add reads
    response,       \* the outcome of the last request
    inflight        \* requests that have read their row and not yet written

vars == <<users, categories, apps, nextAppPk, clock, response, inflight>>

(***************************************************************************)
(* Bounds of the model.                                                    *)
(***************************************************************************)
MaxApps == 2        \* applications ever created
MaxCategories == 2  \* categories stored at the start
MaxUsers == 2       \* users ever registered
MaxInflight == 2    \* requests in progress at once

(***************************************************************************)
(* Text helpers.                                                           *)
(***************************************************************************)
\* A character is its Unicode code point.
\* str.strip() and the regular expressions' \s: the ASCII whitespace
Whitespace == {9, 10, 11, 12, 13, 32}
\* [A-Za-z0-9\-]
LoginChars == (65..90) \cup (97..122) \cup (48..57) \cup {45}
\* [\u0410-\u042f\u0430-\u044f\u0451\u0401\s\-]  (Cyrillic letters, whitespace, hyphen)
NameChars == (1040..1071) \cup (1072..1103) \cup {1105, 1025} \cup Whitespace \cup {45}

RECURSIVE LStrip(_)
LStrip(s) == IF s # <<>> /\ Head(s) \in Whitespace THEN LStrip(Tail(s)) ELSE s

RECURSIVE RStrip(_)
RStrip(s) ==
    IF s # <<>> /\ s[Len(s)] \in Whitespace THEN RStrip(SubSeq(s, 1, Len(s) - 1)) ELSE s

\* str.strip()
Strip(s) == RStrip(LStrip(s))

\* re.match(r"^[...]+$", v): one or more characters of the class; "$" also
\* matches before one trailing newline.
MatchesClass(v, class) ==
    LET body == IF v # <<>> /\ v[Len(v)] = 10 THEN SubSeq(v, 1, Len(v) - 1) ELSE v
    IN  /\ body # <<>>
        /\ \A i \in 1..Len(body) : body[i] \in class

None == <<0 - 1>>           \* a null text column (no code point)
NoFile == [none |-> TRUE]   \* a null file column, or no upload in the request

(***************************************************************************)
(* models.py                                                               *)
(***************************************************************************)
STATUS_NEW == "new"
STATUS_IN_PROGRESS == "in_progress"
STATUS_DONE == "done"
STATUS_CHOICES == {STATUS_NEW, STATUS_IN_PROGRESS, STATUS_DONE}

\* media/applications/<username>/<filename>
upload_to_app(username, filename) == <<"applications", username, filename>>

\* media/designs/<application_id>/<filename>
upload_to_design(id, filename) == <<"designs", id, filename>>

\* a gate that lets the owner delete in any status
can_user_delete_Always(app) == app.status \in STATUS_CHOICES

can_user_delete(app) == app.status = STATUS_NEW

(***************************************************************************)
(* The identities a request can carry.                                     *)
(***************************************************************************)
AnonymousUser ==
    [username |-> <<>>, is_authenticated |-> FALSE, is_active |-> FALSE,
     is_staff |-> FALSE, is_superuser |-> FALSE]

RequestUser(row) ==
    [username |-> row.username, is_authenticated |-> TRUE, is_active |-> row.is_active,
     is_staff |-> row.is_staff, is_superuser |-> row.is_superuser]

RequestUsers == {RequestUser(row) : row \in users} \cup {AnonymousUser}

\* the role check without the is_active flag
is_admin_IgnoresActive(user) == user.is_staff \/ user.is_superuser

\* views.is_admin
is_admin(user) == user.is_active /\ (user.is_staff \/ user.is_superuser)

\* @login_required
login_required(user) == user.is_authenticated

(***************************************************************************)
(* forms.py: uploaded files and the Application forms.                     *)
(* An upload is [filename, content_type, size]; a stored file (the         *)
(* FieldFile of a saved row) is [name, size] and has no content_type.      *)
(***************************************************************************)
MaxImageSize == 2 * 1024 * 1024
valid_types == {"image/jpeg", "image/png", "image/bmp"}

\* getattr(img, "content_type", None)
content_type(img) == IF "content_type" \in DOMAIN img THEN img.content_type ELSE "None"

\* FileField.clean(data, initial) as the ModelForm calls it: with no upload in
\* the request the value is the instance's stored file
FileField_clean(data, initial) == IF data = NoFile THEN initial ELSE data

\* ApplicationForm.clean_image: TRUE when no ValidationError is raised
clean_image(img) ==
    /\ img # NoFile
    /\ content_type(img) \in valid_types
    /\ img.size <= MaxImageSize

\* the design image check without the size limit
clean_design_image_NoSizeLimit(img) ==
    /\ img # NoFile
    /\ content_type(img) \in valid_types

\* ApplicationStatusDoneForm.clean_design_image: TRUE when no ValidationError is raised
clean_design_image(img) ==
    /\ img # NoFile
    /\ content_type(img) \in valid_types
    /\ img.size <= MaxImageSize

\* ApplicationStatusInProgressForm.clean_admin_comment: the cleaned value,
\* empty when ValidationError is raised
clean_admin_comment(c) == Strip(c)

\* an ApplicationForm over every column (fields = "__all__")
ApplicationForm_fields_All ==
    {"user", "title", "category", "image", "description", "status", "admin_comment"}

\* ApplicationForm, class Meta: fields
ApplicationForm_fields == {"title", "category", "image", "description"}

\* ModelForm: the instance with the form's fields, and only those, taken from
\* the cleaned data; POST keys that are no field of the form are ignored
construct_instance(instance, cleaned_data, fields) ==
    [f \in DOMAIN instance |->
        IF f \in fields /\ f \in DOMAIN cleaned_data THEN cleaned_data[f] ELSE instance[f]]

\* ApplicationForm(...).is_valid(): title and category are required, the
\* category must be a stored one, the image passes clean_image
ApplicationForm_is_valid(data, instance) ==
    /\ data.title # ""
    /\ data.category \in DOMAIN categories
    /\ clean_image(FileField_clean(data.image, instance.image))

ApplicationStatusDoneForm_is_valid(data, instance) ==
    clean_design_image(FileField_clean(data.design_image, instance.design_image))

ApplicationStatusInProgressForm_is_valid(data) ==
    clean_admin_comment(data.admin_comment) # <<>>

\* Application(): the unsaved instance a creating form starts from
NewApplication ==
    [user |-> <<>>, title |-> "", category |-> 0, image |-> NoFile, description |-> "",
     status |-> STATUS_NEW, created |-> 0, admin_comment |-> None, design_image |-> NoFile]

\* Model.save(): an uploaded file is written under its upload_to path and the
\* row holds the stored file; every column of the row is written
Model_save(instance, pk) ==
    [instance EXCEPT
        !.image = IF "content_type" \in DOMAIN @
                  THEN [name |-> upload_to_app(instance.user, @.filename), size |-> @.size]
                  ELSE @,
        !.design_image = IF "content_type" \in DOMAIN @
                         THEN [name |-> upload_to_design(pk, @.filename), size |-> @.size]
                         ELSE @]

(***************************************************************************)
(* Request inputs.                                                         *)
(***************************************************************************)
AppPks == 1..MaxApps
CategoryPks == 1..MaxCategories

\* a GET request carries no form data
Get(data) == [method |-> "GET", data |-> data]
Post(posts) == {[method |-> "POST", data |-> d] : d \in posts}

Png2MiB == [filename |-> "plan.png", content_type |-> "image/png", size |-> MaxImageSize]
BmpOver == [filename |-> "big.bmp", content_type |-> "image/bmp", size |-> MaxImageSize + 1]
Gif == [filename |-> "anim.gif", content_type |-> "image/gif", size |-> 1024]
Jpeg1MiB == [filename |-> "done.jpg", content_type |-> "image/jpeg", size |-> 1024 * 1024]

Titles == {"Kitchen redesign", "Bedroom"}

\* POST keys that are no field of ApplicationForm
Forged(d) ==
    [title |-> d.title, category |-> d.category, image |-> d.image,
     description |-> d.description, status |-> STATUS_DONE, user |-> <<109>>,
     admin_comment |-> <<79, 75>>, design_image |-> Jpeg1MiB, created |-> 99]

\* the POST data of create_application and edit_application: every valid
\* combination, each way of being invalid, and a valid one with forged keys
ApplicationPosts ==
    LET wellFormed ==
            [title : Titles, category : CategoryPks, image : {Png2MiB}, description : {""}]
        malformed ==
            [title : {""}, category : {1}, image : {Png2MiB}, description : {""}]
            \cup [title : {"Bedroom"}, category : {1}, image : {NoFile, BmpOver, Gif},
                  description : {""}]
    IN  wellFormed \cup malformed
            \cup {Forged(d) : d \in {w \in wellFormed : w.title = "Bedroom"}}

ApplicationRequests == {Get(NoFile)} \cup Post(ApplicationPosts)

\* "R", " OK ", blank, empty
Comments == {<<82>>, <<32, 79, 75, 32>>, <<32, 32>>, <<>>}
InProgressRequests == {Get(NoFile)} \cup Post([admin_comment : Comments])

DoneRequests == {Get(NoFile)} \cup Post([design_image : {NoFile, BmpOver, Gif, Jpeg1MiB}])

DeleteRequests == {Get(NoFile), [method |-> "POST", data |-> NoFile]}

(***************************************************************************)
(* The initial state: the accounts and the categories ("A"/"a", "B"/"b",   *)
(* ...) that exist before the first request, and no application.           *)
(***************************************************************************)
make_password(raw) == <<"pbkdf2_sha256", raw>>

Ivan ==     \* "ivan", a customer
    [username |-> <<105, 118, 97, 110>>, first_name |-> <<1048, 1074, 1072, 1085>>,
     last_name |-> <<1048>>, email |-> "ivan@example.com", password |-> make_password("p1"),
     is_staff |-> FALSE, is_superuser |-> FALSE, is_active |-> TRUE]
Maria ==    \* "m", staff
    [username |-> <<109>>, first_name |-> <<1052>>, last_name |-> <<1052>>,
     email |-> "m@example.com", password |-> make_password("p1"),
     is_staff |-> TRUE, is_superuser |-> FALSE, is_active |-> TRUE]
Root ==     \* "root", superuser without the staff flag
    [username |-> <<114, 111, 111, 116>>, first_name |-> <<>>, last_name |-> <<>>,
     email |-> "", password |-> make_password("p2"),
     is_staff |-> FALSE, is_superuser |-> TRUE, is_active |-> TRUE]
Oleg ==     \* "oleg", a deactivated staff account
    [username |-> <<111, 108, 101, 103>>, first_name |-> <<1054>>, last_name |-> <<1054>>,
     email |-> "oleg@example.com", password |-> make_password("p2"),
     is_staff |-> TRUE, is_superuser |-> TRUE, is_active |-> FALSE]

\* what a view answers: "success" (the change is made, messages.success and a
\* redirect), "rendered" (a page for a GET), "invalid" (the form again, with its
\* errors), "state_error" (messages.error and a redirect: the row is in the
\* wrong status), "login_redirect" (the decorator refuses the identity),
\* "not_found" (get_object_or_404)
Response(view, outcome) == [view |-> view, outcome |-> outcome]

Init ==
    /\ users = {Ivan, Maria, Root, Oleg}
    /\ categories = [pk \in CategoryPks |-> [name |-> <<64 + pk>>, slug |-> <<96 + pk>>]]
    /\ apps = <<>>
    /\ nextAppPk = 1
    /\ clock = 1
    /\ response = Response("none", "none")
    /\ inflight = {}

\* the rows of a table without the row pk
Without(table, pk) == [k \in DOMAIN table \ {pk} |-> table[k]]

\* the rows of a table with the row pk written
With(table, pk, row) == [k \in DOMAIN table \cup {pk} |-> IF k = pk THEN row ELSE table[k]]

(***************************************************************************)
(* views.py: applications of a customer.                                   *)
(***************************************************************************)
\* get_object_or_404(Application, pk=pk, user=request.user)
OwnApplication(user, pk) == pk \in DOMAIN apps /\ apps[pk].user = user.username

\* edit_application: "if app.status != Application.STATUS_NEW" refuses
EditAllowed(app) == app.status = STATUS_NEW

create_application(user, request) ==
    /\ IF ~login_required(user)
       THEN /\ response' = Response("create_application", "login_redirect")
            /\ UNCHANGED <<apps, nextAppPk, clock>>
       ELSE IF /\ request.method = "POST"
               /\ ApplicationForm_is_valid(request.data, NewApplication)
       THEN /\ nextAppPk <= MaxApps
            /\ LET app == construct_instance(NewApplication, request.data,
                                             ApplicationForm_fields)
                   own == [app EXCEPT !.user = user.username, !.status = STATUS_NEW,
                                      !.created = clock]
               IN  apps' = With(apps, nextAppPk, Model_save(own, nextAppPk))
            /\ nextAppPk' = nextAppPk + 1
            /\ clock' = clock + 1
            /\ response' = Response("create_application", "success")
       ELSE /\ response' = Response("create_application",
                                     IF request.method = "POST" THEN "invalid" ELSE "rendered")
            /\ UNCHANGED <<apps, nextAppPk, clock>>
    /\ UNCHANGED <<users, categories, inflight>>

\* edit_application up to its write: what the view answers, "success" when it
\* goes on to form.save()
edit_application_answer(user, pk, request) ==
    IF ~login_required(user) THEN "login_redirect"
    ELSE IF ~OwnApplication(user, pk) THEN "not_found"
    ELSE IF ~EditAllowed(apps[pk]) THEN "state_error"
    ELSE IF request.method # "POST" THEN "rendered"
    ELSE IF ApplicationForm_is_valid(request.data, apps[pk]) THEN "success"
    ELSE "invalid"

\* the instance form.save() writes: the row as read, with the form's fields
edit_application_instance(pk, request) ==
    construct_instance(apps[pk], request.data, ApplicationForm_fields)

edit_application(user, pk, request) ==
    /\ response' = Response("edit_application", edit_application_answer(user, pk, request))
    /\ apps' = IF edit_application_answer(user, pk, request) = "success"
               THEN With(apps, pk, Model_save(edit_application_instance(pk, request), pk))
               ELSE apps
    /\ UNCHANGED <<users, categories, nextAppPk, clock, inflight>>

\* delete_application up to its write: "success" when it goes on to app.delete()
delete_application_answer(user, pk, request) ==
    IF ~login_required(user) THEN "login_redirect"
    ELSE IF ~OwnApplication(user, pk) THEN "not_found"
    ELSE IF ~can_user_delete(apps[pk]) THEN "state_error"
    ELSE IF request.method = "POST" THEN "success"
    ELSE "rendered"

delete_application(user, pk, request) ==
    /\ response' = Response("delete_application",
                            delete_application_answer(user, pk, request))
    /\ apps' = IF delete_application_answer(user, pk, request) = "success"
               THEN Without(apps, pk)
               ELSE apps
    /\ UNCHANGED <<users, categories, nextAppPk, clock, inflight>>

(***************************************************************************)
(* views.py: status changes by an administrator.                           *)
(***************************************************************************)
\* a gate open in every status
InProgressAllowed_Always(app) == app.status \in STATUS_CHOICES

\* a gate closed only for finished applications
InProgressAllowed_NotDone(app) == app.status # STATUS_DONE

\* change_status_in_progress: "if app.status != Application.STATUS_NEW" refuses
InProgressAllowed(app) == app.status = STATUS_NEW

\* change_status_in_progress up to its write: "success" when it goes on to
\* app.save()
change_status_in_progress_answer(user, pk, request) ==
    IF ~is_admin(user) THEN "login_redirect"
    ELSE IF pk \notin DOMAIN apps THEN "not_found"
    ELSE IF ~InProgressAllowed(apps[pk]) THEN "state_error"
    ELSE IF request.method # "POST" THEN "rendered"
    ELSE IF ApplicationStatusInProgressForm_is_valid(request.data) THEN "success"
    ELSE "invalid"

\* the instance app.save() writes: the row as read, with the comment and the status
change_status_in_progress_instance(pk, request) ==
    [apps[pk] EXCEPT !.admin_comment = clean_admin_comment(request.data.admin_comment),
                     !.status = STATUS_IN_PROGRESS]

change_status_in_progress(user, pk, request) ==
    /\ response' = Response("change_status_in_progress",
                            change_status_in_progress_answer(user, pk, request))
    /\ apps' = IF change_status_in_progress_answer(user, pk, request) = "success"
               THEN With(apps, pk,
                         Model_save(change_status_in_progress_instance(pk, request), pk))
               ELSE apps
    /\ UNCHANGED <<users, categories, nextAppPk, clock, inflight>>

\* change_status_done up to its write: "success" when it goes on to app.save();
\* the status of the row is not looked at
change_status_done_answer(user, pk, request) ==
    IF ~is_admin(user) THEN "login_redirect"
    ELSE IF pk \notin DOMAIN apps THEN "not_found"
    ELSE IF request.method # "POST" THEN "rendered"
    ELSE IF ApplicationStatusDoneForm_is_valid(request.data, apps[pk]) THEN "success"
    ELSE "invalid"

\* the instance app.save() writes: the row as read, with the design image (when
\* the cleaned value is one) and the status
change_status_done_instance(pk, request) ==
    LET design_image == FileField_clean(request.data.design_image, apps[pk].design_image)
    IN  [apps[pk] EXCEPT !.design_image = IF design_image # NoFile THEN design_image ELSE @,
                         !.status = STATUS_DONE]

change_status_done(user, pk, request) ==
    /\ response' = Response("change_status_done",
                            change_status_done_answer(user, pk, request))
    /\ apps' = IF change_status_done_answer(user, pk, request) = "success"
               THEN With(apps, pk, Model_save(change_status_done_instance(pk, request), pk))
               ELSE apps
    /\ UNCHANGED <<users, categories, nextAppPk, clock, inflight>>

(***************************************************************************)
(* views.py: deletion of a category by an administrator.                   *)
(***************************************************************************)
\* category.applications.all()
CategoryApplications(table, pk) == {k \in DOMAIN table : table[k].category = pk}

\* a delete of every application, whatever its category
ApplicationsAfterCategoryDelete_All(pk) == [k \in {} |-> apps[k]]

\* the Application rows left by
\*     category.applications.all().delete()
\*     category.delete()     (Application.category is on_delete=CASCADE)
ApplicationsAfterCategoryDelete(pk) ==
    LET left == [k \in DOMAIN apps \ CategoryApplications(apps, pk) |-> apps[k]]
    IN  [k \in DOMAIN left \ CategoryApplications(left, pk) |-> left[k]]

category_delete(user, pk, request) ==
    /\ IF ~is_admin(user)
       THEN /\ response' = Response("category_delete", "login_redirect")
            /\ UNCHANGED <<categories, apps>>
       ELSE IF pk \notin DOMAIN categories
       THEN response' = Response("category_delete", "not_found") /\ UNCHANGED <<categories, apps>>
       ELSE IF request.method = "POST"
       THEN /\ apps' = ApplicationsAfterCategoryDelete(pk)
            /\ categories' = Without(categories, pk)
            /\ response' = Response("category_delete", "success")
       ELSE response' = Response("category_delete", "rendered") /\ UNCHANGED <<categories, apps>>
    /\ UNCHANGED <<users, nextAppPk, clock, inflight>>

(***************************************************************************)
(* Requests processed one at a time.                                       *)
(***************************************************************************)
\* who submits applications: a customer and a visitor who is not logged in
\* (create_application treats every logged-in identity alike)
Customers == {RequestUser(Ivan), AnonymousUser}

Next ==
    \/ \E u \in Customers, r \in ApplicationRequests : create_application(u, r)
    \/ \E u \in RequestUsers, pk \in AppPks, r \in ApplicationRequests :
            edit_application(u, pk, r)
    \/ \E u \in RequestUsers, pk \in AppPks, r \in DeleteRequests :
            delete_application(u, pk, r)
    \/ \E u \in RequestUsers, pk \in AppPks, r \in InProgressRequests :
            change_status_in_progress(u, pk, r)
    \/ \E u \in RequestUsers, pk \in AppPks, r \in DoneRequests :
            change_status_done(u, pk, r)
    \/ \E u \in RequestUsers, pk \in CategoryPks, r \in DeleteRequests :
            category_delete(u, pk, r)

Spec == Init /\ [][Next]_vars

(***************************************************************************)
(* forms.py, views.py: registration.  Registration writes the User table   *)
(* only, and no other view writes it.                                      *)
(***************************************************************************)
\* RegistrationForm.clean_username: TRUE when no ValidationError is raised
clean_username(username) ==
    /\ MatchesClass(username, LoginChars)
    /\ ~\E row \in users : row.username = username

\* RegistrationForm.clean_first_name, clean_last_name: TRUE when no
\* ValidationError is raised for the stripped value
clean_first_name(v) == MatchesClass(Strip(v), NameChars)
clean_last_name(v) == MatchesClass(Strip(v), NameChars)

\* an e-mail check that forgets the stored users
clean_email_RequiredOnly(email) == email # ""

\* RegistrationForm.clean_email: TRUE when no ValidationError is raised
clean_email(email) ==
    /\ email # ""
    /\ ~\E row \in users : row.email = email

\* RegistrationForm.clean: TRUE when no error is added
RegistrationForm_clean(data) ==
    /\ data.password = data.password2
    /\ data.agree

\* RegistrationForm(...).is_valid(): username, password and password2 are
\* required fields; every clean_<field> and clean pass
RegistrationForm_is_valid(data) ==
    /\ data.username # <<>>
    /\ clean_username(data.username)
    /\ clean_first_name(data.first_name)
    /\ clean_last_name(data.last_name)
    /\ clean_email(data.email)
    /\ data.password # ""
    /\ data.password2 # ""
    /\ RegistrationForm_clean(data)

\* RegistrationForm.save: the new row, its password hashed
RegistrationForm_save(data) ==
    [username |-> data.username, first_name |-> Strip(data.first_name),
     last_name |-> Strip(data.last_name), email |-> data.email,
     password |-> make_password(data.password),
     is_staff |-> FALSE, is_superuser |-> FALSE, is_active |-> TRUE]

register(request) ==
    /\ IF request.method = "POST" /\ RegistrationForm_is_valid(request.data)
       THEN /\ Cardinality(users) < Cardinality({Ivan, Maria, Root, Oleg}) + MaxUsers
            /\ users' = users \cup {RegistrationForm_save(request.data)}
            /\ response' = Response("register", "success")
       ELSE /\ response' = Response("register",
                                     IF request.method = "POST" THEN "invalid" ELSE "rendered")
            /\ UNCHANGED users
    /\ UNCHANGED <<categories, apps, nextAppPk, clock, inflight>>

\* user names "anna", "a-1", "Z9"; e-mail addresses not yet stored
NewUsernames == {<<97, 110, 110, 97>>, <<97, 45, 49>>, <<90, 57>>}
NewEmails == {"anna@example.com", "a1@example.com", "z9@example.com"}

\* one filled-in registration form: Cyrillic names, matching passwords, consent
Filled(username, email) ==
    [username |-> username, first_name |-> <<1040, 1085, 1085, 1072>>,
     last_name |-> <<1055, 1077, 1090, 1088, 45, 1086, 1074, 1072>>, email |-> email,
     password |-> "p1", password2 |-> "p1", agree |-> TRUE]

\* the POST data of register: valid forms, and forms with one thing wrong each
RegistrationPosts ==
    LET d == Filled(<<97, 110, 110, 97>>, "anna@example.com")
    IN  {Filled(u, e) : u \in NewUsernames, e \in NewEmails}
        \cup {[Filled(u, "anna@example.com") EXCEPT !.first_name = <<32, 1071, 32>>,
                                                    !.password = "p2", !.password2 = "p2"] :
                 u \in NewUsernames}
        \cup {[d EXCEPT !.username = <<97, 95, 49>>],          \* "a_1"
              [d EXCEPT !.username = <<97, 32, 49>>],          \* "a 1"
              [d EXCEPT !.username = <<>>],
              [d EXCEPT !.username = Ivan.username],
              [d EXCEPT !.first_name = <<65, 110, 110, 97>>],  \* "Anna"
              [d EXCEPT !.first_name = <<32>>],
              [d EXCEPT !.last_name = <<1055, 49>>],
              [d EXCEPT !.email = ""],
              [d EXCEPT !.email = Ivan.email],
              [d EXCEPT !.password2 = "p2"],
              [d EXCEPT !.password2 = ""],
              [d EXCEPT !.agree = FALSE]}

RegistrationRequests == {Get(NoFile)} \cup Post(RegistrationPosts)

NextRegistration == \E r \in RegistrationRequests : register(r)

SpecRegistration == Init /\ [][NextRegistration]_vars

(***************************************************************************)
(* Requests on one Application that overlap.  A request that gets past its *)
(* checks holds the row it read; its write comes in a later step, and      *)
(* other requests read and write in between.  Model.save() writes every    *)
(* column of the instance (and inserts the row when it is gone);           *)
(* Model.delete() deletes by primary key.                                  *)
(***************************************************************************)
\* the row every overlapping request is about: the first one
Shared == CHOOSE pk \in AppPks : \A k \in AppPks : pk <= k

\* one Application stored, new, as create_application leaves it
InitOverlap ==
    /\ users = {Ivan, Maria, Root, Oleg}
    /\ categories = [pk \in CategoryPks |-> [name |-> <<64 + pk>>, slug |-> <<96 + pk>>]]
    /\ LET data == [title |-> "Kitchen redesign", category |-> 1, image |-> Png2MiB,
                    description |-> ""]
           app == construct_instance(NewApplication, data, ApplicationForm_fields)
           own == [app EXCEPT !.user = Ivan.username, !.status = STATUS_NEW, !.created = 1]
       IN  apps = With(<<>>, Shared, Model_save(own, Shared))
    /\ nextAppPk = Shared + 1
    /\ clock = 2
    /\ response = Response("create_application", "success")
    /\ inflight = {}

\* the read half of a view: it answers at once unless it goes on to write
Begin(view, answer, instance) ==
    /\ Cardinality(inflight) < MaxInflight
    /\ IF answer = "success"
       THEN /\ inflight' = inflight \cup {[view |-> view, instance |-> instance]}
            /\ UNCHANGED response
       ELSE /\ response' = Response(view, answer)
            /\ UNCHANGED inflight
    /\ UNCHANGED <<users, categories, apps, nextAppPk, clock>>

begin_edit_application(user, request) ==
    Begin("edit_application", edit_application_answer(user, Shared, request),
          IF Shared \in DOMAIN apps THEN edit_application_instance(Shared, request)
          ELSE NewApplication)

begin_delete_application(user, request) ==
    Begin("delete_application", delete_application_answer(user, Shared, request),
          IF Shared \in DOMAIN apps THEN apps[Shared] ELSE NewApplication)

begin_change_status_in_progress(user, request) ==
    Begin("change_status_in_progress",
          change_status_in_progress_answer(user, Shared, request),
          IF Shared \in DOMAIN apps /\ request.method = "POST"
          THEN change_status_in_progress_instance(Shared, request)
          ELSE NewApplication)

begin_change_status_done(user, request) ==
    Begin("change_status_done", change_status_done_answer(user, Shared, request),
          IF Shared \in DOMAIN apps /\ request.method = "POST"
          THEN change_status_done_instance(Shared, request)
          ELSE NewApplication)

\* the write half: form.save() or app.save()
finish_save(q) ==
    /\ q \in inflight
    /\ q.view # "delete_application"
    /\ apps' = With(apps, Shared, Model_save(q.instance, Shared))
    /\ inflight' = inflight \ {q}
    /\ response' = Response(q.view, "success")
    /\ UNCHANGED <<users, categories, nextAppPk, clock>>

\* the write half: app.delete()
finish_delete(q) ==
    /\ q \in inflight
    /\ q.view = "delete_application"
    /\ apps' = Without(apps, Shared)
    /\ inflight' = inflight \ {q}
    /\ response' = Response(q.view, "success")
    /\ UNCHANGED <<users, categories, nextAppPk, clock>>

NextOverlap ==
    \/ \E u \in RequestUsers, r \in ApplicationRequests : begin_edit_application(u, r)
    \/ \E u \in RequestUsers, r \in DeleteRequests : begin_delete_application(u, r)
    \/ \E u \in RequestUsers, r \in InProgressRequests : begin_change_status_in_progress(u, r)
    \/ \E u \in RequestUsers, r \in DoneRequests : begin_change_status_done(u, r)
    \/ \E q \in inflight : finish_save(q)
    \/ \E q \in inflight : finish_delete(q)

SpecOverlap == InitOverlap /\ [][NextOverlap]_vars

(***************************************************************************)
(* Properties of the status workflow, requests processed one at a time.    *)
(***************************************************************************)
\* the rows present before and after a step
Kept == DOMAIN apps \cap DOMAIN apps'

StatusRank(status) ==
    CASE status = STATUS_NEW -> 0
      [] status = STATUS_IN_PROGRESS -> 1
      [] status = STATUS_DONE -> 2

\* the administrator of the specification: active, and staff or superuser
Administrator(u) == u.is_active /\ (u.is_staff \/ u.is_superuser)

\* the upload the specification accepts: jpeg, png or bmp of at most 2 MiB
AcceptableUpload(f) ==
    /\ f # NoFile
    /\ f.content_type \in {"image/jpeg", "image/png", "image/bmp"}
    /\ f.size <= 2097152

\* C1: the status of an Application changes only from new to in_progress or
\* from in_progress to done.
C1_OnlyLinearTransitions ==
    [][\A pk \in Kept :
          apps'[pk].status # apps[pk].status =>
              <<apps[pk].status, apps'[pk].status>> \in
                  {<<STATUS_NEW, STATUS_IN_PROGRESS>>, <<STATUS_IN_PROGRESS, STATUS_DONE>>}]_vars

\* C2: no request lowers the stored status of an Application
\* (new < in_progress < done); a done Application stays done while it exists.
C2_StatusNeverRegresses ==
    [][\A pk \in Kept : StatusRank(apps'[pk].status) >= StatusRank(apps[pk].status)]_vars

\* every stored Application is done and the last request, an in_progress
\* transition, was refused for the status
C2_Witness ==
    /\ DOMAIN apps # {}
    /\ \A pk \in DOMAIN apps : apps[pk].status = STATUS_DONE
    /\ response = Response("change_status_in_progress", "state_error")

\* C3: change_status_in_progress on an Application whose status is not new is
\* refused and leaves its status and admin_comment as they were.
C3_InProgressOnlyFromNew ==
    [][response'.view = "change_status_in_progress" =>
       \A u \in RequestUsers, pk \in DOMAIN apps, r \in InProgressRequests :
          (apps[pk].status # STATUS_NEW /\ change_status_in_progress(u, pk, r)) =>
              /\ response'.outcome \in {"state_error", "login_redirect"}
              /\ pk \in DOMAIN apps'
              /\ apps'[pk].status = apps[pk].status
              /\ apps'[pk].admin_comment = apps[pk].admin_comment]_vars

\* an Application in_progress with the comment of its transition, and a second
\* in_progress transition just refused
C3_Witness ==
    /\ response = Response("change_status_in_progress", "state_error")
    /\ \A pk \in DOMAIN apps :
          apps[pk].status = STATUS_IN_PROGRESS /\ apps[pk].admin_comment = <<82>>
    /\ DOMAIN apps # {}

\* the identity of the owner of a stored Application
Owner(app) == CHOOSE u \in RequestUsers : u.is_authenticated /\ u.username = app.user

\* C4: an edit or delete request of the owner for an Application whose status
\* is not new is refused; the Application still exists, unchanged.
C4_OwnerEditDeleteOnlyWhileNew ==
    [][response'.view \in {"edit_application", "delete_application"} =>
       \A pk \in DOMAIN apps :
          apps[pk].status # STATUS_NEW =>
              /\ \A r \in ApplicationRequests :
                    edit_application(Owner(apps[pk]), pk, r) =>
                        response'.outcome = "state_error" /\ apps' = apps
              /\ \A r \in DeleteRequests :
                    delete_application(Owner(apps[pk]), pk, r) =>
                        response'.outcome = "state_error" /\ apps' = apps]_vars

\* the only Application is not new and its owner's delete was just refused
C4_Witness ==
    /\ response = Response("delete_application", "state_error")
    /\ \E pk \in DOMAIN apps : apps[pk].status # STATUS_NEW

\* C5: a status change requested by anyone who is not an administrator leaves
\* status, admin_comment and design_image of every Application as they were.
C5_OnlyAdministratorAdvances ==
    [][response'.view \in {"change_status_in_progress", "change_status_done"} =>
       \A u \in {a \in RequestUsers : ~Administrator(a)}, pk \in AppPks :
              \A r \in InProgressRequests \cup DoneRequests :
                  ((r \in InProgressRequests /\ change_status_in_progress(u, pk, r))
                      \/ (r \in DoneRequests /\ change_status_done(u, pk, r))) =>
                      /\ DOMAIN apps' = DOMAIN apps
                      /\ \A k \in DOMAIN apps :
                            /\ apps'[k].status = apps[k].status
                            /\ apps'[k].admin_comment = apps[k].admin_comment
                            /\ apps'[k].design_image = apps[k].design_image]_vars

\* a new Application exists and a done transition was just turned away at the
\* role check
C5_Witness ==
    /\ response = Response("change_status_done", "login_redirect")
    /\ \E pk \in DOMAIN apps : apps[pk].status = STATUS_NEW

\* C6: change_status_done without an acceptable design image changes nothing,
\* and every done Application has a design image.
C6_DoneNeedsDesignImage ==
    /\ [](\A pk \in DOMAIN apps :
            apps[pk].status = STATUS_DONE => apps[pk].design_image # NoFile)
    /\ [][response'.view = "change_status_done" =>
          \A u \in RequestUsers, pk \in AppPks :
            \A r \in {q \in DoneRequests :
                          ~(q.method = "POST" /\ AcceptableUpload(q.data.design_image))} :
                change_status_done(u, pk, r) => apps' = apps]_vars

\* a done Application with its design image, and a done submission just
\* refused by the form
C6_Witness ==
    /\ response = Response("change_status_done", "invalid")
    /\ \E pk \in DOMAIN apps :
          apps[pk].status = STATUS_DONE /\ apps[pk].design_image # NoFile

\* C7: an administrator's POST to category_delete removes the Category and
\* exactly the Applications that reference it; every stored Application
\* references a stored Category.
C7_CategoryDeleteCascades ==
    /\ [](\A pk \in DOMAIN apps : apps[pk].category \in DOMAIN categories)
    /\ [][response'.view = "category_delete" =>
          \A u \in RequestUsers, c \in DOMAIN categories, r \in DeleteRequests :
            (Administrator(u) /\ r.method = "POST" /\ category_delete(u, c, r)) =>
                /\ c \notin DOMAIN categories'
                /\ DOMAIN apps' = {k \in DOMAIN apps : apps[k].category # c}
                /\ \A k \in DOMAIN apps' : apps'[k] = apps[k]]_vars

\* a Category was just deleted; of the two Applications created, the one of
\* the other Category is still stored, and it is not new
C7_Witness ==
    /\ response = Response("category_delete", "success")
    /\ nextAppPk = 3
    /\ Cardinality(DOMAIN apps) = 1
    /\ \A pk \in DOMAIN apps : apps[pk].status # STATUS_NEW

\* C8: edit_application leaves owner, status, created, admin_comment and
\* design_image of the Application as they were, whatever the POST holds.
C8_EditFrame ==
    [][response'.view = "edit_application" =>
          /\ DOMAIN apps' = DOMAIN apps
          /\ \A pk \in DOMAIN apps :
                /\ apps'[pk].user = apps[pk].user
                /\ apps'[pk].status = apps[pk].status
                /\ apps'[pk].created = apps[pk].created
                /\ apps'[pk].admin_comment = apps[pk].admin_comment
                /\ apps'[pk].design_image = apps[pk].design_image]_vars

\* an edit just succeeded on an Application created under another title
C8_Witness ==
    /\ response = Response("edit_application", "success")
    /\ \E pk \in DOMAIN apps :
          apps[pk].title = "Bedroom" /\ apps[pk].category = 2 /\ apps[pk].created = 1

(***************************************************************************)
(* Registration.                                                           *)
(***************************************************************************)
\* what the specification asks of a registration: a user name of ASCII
\* letters, digits and hyphens that is not stored, an e-mail address that is
\* given and not stored, two equal passwords, consent
MeetsRegistrationRules(d) ==
    /\ d.username # <<>>
    /\ \A i \in 1..Len(d.username) :
          d.username[i] \in (65..90) \cup (97..122) \cup (48..57) \cup {45}
    /\ \A row \in users : row.username # d.username
    /\ d.email # ""
    /\ \A row \in users : row.email # d.email
    /\ d.password = d.password2
    /\ d.agree

\* C9: a registration that fails a check stores nothing, and no two stored
\* users share a username or an email.
C9_RegistrationAllOrNothing ==
    /\ [](\A a, b \in users : a # b => a.username # b.username /\ a.email # b.email)
    /\ [][\A r \in Post(RegistrationPosts) :
            (register(r) /\ ~MeetsRegistrationRules(r.data)) => users' = users]_vars

\* two users have registered and the last registration was refused
C9_Witness ==
    /\ Cardinality(users) = Cardinality({Ivan, Maria, Root, Oleg}) + 2
    /\ response = Response("register", "invalid")

(***************************************************************************)
(* Overlapping requests.                                                   *)
(***************************************************************************)
\* C10: with overlapping requests the stored status never regresses, and an
\* owner's delete never removes an Application whose stored status is not new.
C10_GatesHoldWhenRequestsOverlap ==
    [][/\ \A pk \in Kept : StatusRank(apps'[pk].status) >= StatusRank(apps[pk].status)
       /\ \A q \in inflight :
             (finish_delete(q) /\ Shared \in DOMAIN apps) =>
                 apps[Shared].status = STATUS_NEW]_vars

====
